---- MODULE Spec2Model ----
(***************************************************************************)
(* Supervisor <-> worker grading protocol of dmoj/judge.py: Judge,         *)
(* JudgeWorker, the worker process (main generator and inbound listener),  *)
(* the duplex pipe between them and the threads calling begin_grading and  *)
(* abort_grading; the compiled-artifact cache of                           *)
(* dmoj/executors/compiled_executor.py; and StandardGrader.grade of        *)
(* dmoj/graders/standard.py with BaseExecutor.launch and populate_result.  *)
(***************************************************************************)
EXTENDS Integers, Sequences, FiniteSets, TLC

\* ------------------------------------------------------------------ bounds
\* Largest number of flattened cases of a problem.
MaxCases == 2
\* Messages the pipe holds in one direction before send() blocks.
MaxPipe == 2

\* Threads that may call begin_grading, once each; worker c is the
\* JudgeWorker created by caller c.
NumCallers == 2
Callers == 1..NumCallers

\* Distinct cache keys, capacity of the cache (compiled_binary_cache_size)
\* and executor instances ever constructed.
NumKeys == 3
CacheSize == 2
MaxExecutors == 4

\* Largest points of a case, largest wall deadline (in ticks) and number of
\* cases one grader handles.
MaxPoints == 1
MaxWall == 1
MaxGraded == 2

\* Longest output a checker is given.
MaxLen == 4

\* Most components the src of a symlink has.
MaxPath == 2
\* "no worker" / "no holder" / "batch number None"
None == 0

\* ------------------------------------------------------------- the problem
\* A problem is a sequence of units: 0 is a plain TestCase, k >= 1 is a
\* BatchedTestCase with k inner cases.
RECURSIVE UnitSeqs(_)
UnitSeqs(n) ==
    IF n = 0 THEN {<<>>}
    ELSE {<<>>} \cup
         {<<u>> \o s : u \in 0..n, s \in UnitSeqs(n - 1)}

CasesOf(u) == IF u = 0 THEN 1 ELSE u

RECURSIVE TotalCases(_)
TotalCases(p) == IF p = <<>> THEN 0 ELSE CasesOf(Head(p)) + TotalCases(Tail(p))

Problems == {p \in UnitSeqs(MaxCases) : TotalCases(p) <= MaxCases}

\* judge.py 190-198: the flattened case list, as the batch number of each
\* case (None for a case outside a batch).
RECURSIVE FlattenFrom(_, _)
FlattenFrom(p, batch_number) ==
    IF p = <<>> THEN <<>>
    ELSE IF Head(p) = 0
         THEN <<None>> \o FlattenFrom(Tail(p), batch_number)
         ELSE [k \in 1..Head(p) |-> batch_number + 1]
              \o FlattenFrom(Tail(p), batch_number + 1)

flattened_cases(p) == FlattenFrom(p, 0)

\* ------------------------------------------------------------------ grade
\* What the child process of a case does.
Behaviours == {"ok", "wrong", "rte", "tle"}

\* base_executor.py 157-165 (is_tle) and 114-118 (populate_result)
PopulateFlags(beh) ==
    (IF beh \in {"rte", "tle"} THEN {"RTE"} ELSE {})
    \cup (IF beh = "tle" THEN {"TLE"} ELSE {})

\* graders/standard.py 36-59 with a checker that does not run on error:
\* TRUE iff the checker is invoked and accepts the output.
check_result(beh, flags) == flags = {} /\ beh = "ok"

\* graders/standard.py 15-31: the result_flag of the graded case.
grade(beh) ==
    LET flags == PopulateFlags(beh)
    IN  flags \cup (IF check_result(beh, flags) THEN {"AC"} ELSE {"WA"})

\* judge.py 208: the synthetic result of a short-circuited case.
SCResult == {"SC"}

\* judge.py 214
ShortCircuitOnTleOnly(flags, sc) == "TLE" \in flags /\ sc
ShortCircuitTriggered(flags, sc) == "WA" \in flags /\ sc

\* judge.py 205
NextCaseNumberStuck(n) == n
NextCaseNumber(n) == n + 1

\* ---------------------------------------------------------------- messages
Msg(tag, batch, case, flags) == <<tag, batch, case, flags>>
Tag(m) == m[1]
Plain(tag) == Msg(tag, None, 0, {})

VARIABLES
    problem,        \* the problem every submission is graded against
    \* Judge
    grading_lock,   \* holder of Judge._grading_lock, None when free
    current_judge_worker,
    cpc,            \* position of each begin_grading call
    outcome,        \* how each begin_grading call ended
    gpc,            \* position of each call's grading thread
    ipc_ready,      \* ipc_ready_signal of each call
    results,        \* the results list of each call
    yielded,        \* what communicate() of each worker has yielded so far
    \* JudgeWorker, supervisor side
    short_circuit,  \* submission.short_circuit of each worker
    proc,           \* state of worker_process
    sent_sigkill,   \* _sent_sigkill_to_worker_process
    w2s, s2w,       \* the two directions of the pipe
    \* worker process
    wpc,            \* position of the worker's main thread
    lpc,            \* position of the inbound listener thread
    idx,            \* cases of flattened_cases the loop has finished
    case_number,
    is_short_circuiting,
    abort_requested,
    result,         \* result_flag of the case being handled
    \* aborting thread
    apc,            \* position of the thread that calls abort_grading
    atarget,        \* the worker its current or last call got hold of
    \* history
    sent,           \* every message the worker has sent, in order
    launched,       \* case numbers for which a child was launched
    timed_out,      \* the supervisor's receive loop timed out
    abort_in_case,  \* the pending abort_grading() was called during a case
    abort_seen,     \* length of sent when the listener processed REQUEST_ABORT
    terminal,       \* the terminal event each worker has sent, "" if none
    abort_repeat    \* the last abort_grading() call repeated the one before

jvars == <<grading_lock, current_judge_worker, cpc, outcome, gpc, ipc_ready, results, yielded>>
svars == <<short_circuit, proc, sent_sigkill, w2s, s2w>>
wvars == <<wpc, lpc, idx, case_number, is_short_circuiting, abort_requested, result>>
avars == <<apc, atarget>>
hvars == <<sent, launched, timed_out, abort_in_case, abort_seen, terminal, abort_repeat>>

\* The compiled-artifact cache of dmoj/executors/compiled_executor.py and the
\* executor instances built through it.
VARIABLES
    compiled_binary_cache,  \* <<key, instance>> pairs, most recently used first
    objs,           \* every executor instance: key, _dir, is_cached, holder
    disk,           \* the working directories that exist on disk
    binaries,       \* those of them that hold their compiled executable
    recompiled      \* the last construction ran the compiler for what the
                    \* construction before it had built

\* One StandardGrader grading the cases of a submission (graders/standard.py
\* and the case loop of judge.py 200-220), without the pipe.
VARIABLES
    g_pc,           \* position inside the case loop and inside grade()
    g_index,        \* cases handled so far
    g_sc,           \* submission.short_circuit
    g_short,        \* is_short_circuiting
    g_case,         \* the case at hand and what its child and checker do
    g_process,      \* the child: state, returncode, is_tle
    g_result,       \* the Result of the case at hand
    g_check,        \* what check_result returned
    g_ran,          \* the checker was invoked for the case at hand
    g_unicode,      \* its call ended with a UnicodeDecodeError
    g_symlink,      \* src of the symlink the launch at hand was asked for
    g_linked,       \* launch() has made that symlink
    g_raised,       \* the exception that left grade(), if any
    g_sent,         \* what the worker sent after that exception
    g_abort,        \* _abort_requested
    g_current_proc, \* what _current_proc refers to
    g_abort_running,\* the abort request came while the child at hand ran
    g_killed_by     \* who killed the child at hand

\* One call of a checker of dmoj/checkers on two outputs.
VARIABLES
    process_output, \* what the submission wrote
    judge_output,   \* the expected output of the case
    k_pc,           \* "off", "ready" (nothing called yet) or "done"
    k_checker,      \* the checker called: "identical" or "standard"
    k_ext,          \* the import of the C extension _checker succeeded
    k_pe,           \* pe_allowed of the call
    k_ret           \* what check() returned

cvars == <<compiled_binary_cache, objs, disk, binaries, recompiled>>
lvars == <<g_symlink, g_linked, g_raised, g_sent>>
bvars == <<g_abort, g_current_proc, g_abort_running, g_killed_by>>
gvars == <<g_pc, g_index, g_sc, g_short, g_case, g_process, g_result, g_check, g_ran, g_unicode,
           lvars, bvars>>
kvars == <<process_output, judge_output, k_pc, k_checker, k_ext, k_pe, k_ret>>
pvars == <<problem, jvars, svars, wvars, avars, hvars>>
vars == <<problem, jvars, svars, wvars, avars, hvars, cvars, gvars, kvars>>

\* A fresh Judge (judge.py 43-45); the callers in `active` are about to call
\* begin_grading.
InitWith(problems, active) ==
    /\ problem \in problems
    /\ grading_lock = None
    /\ current_judge_worker = None
    /\ cpc = [c \in Callers |-> IF c \in active THEN "idle" ELSE "off"]
    /\ outcome = [c \in Callers |-> "none"]
    /\ gpc = [c \in Callers |-> "none"]
    /\ ipc_ready = [c \in Callers |-> FALSE]
    /\ results = [c \in Callers |-> <<>>]
    /\ yielded = [c \in Callers |-> <<>>]
    /\ short_circuit = [c \in Callers |-> FALSE]
    /\ proc = [c \in Callers |-> "none"]
    /\ sent_sigkill = [c \in Callers |-> FALSE]
    /\ w2s = [c \in Callers |-> <<>>]
    /\ s2w = [c \in Callers |-> <<>>]
    /\ wpc = [c \in Callers |-> "none"]
    /\ lpc = [c \in Callers |-> "none"]
    /\ idx = [c \in Callers |-> 0]
    /\ case_number = [c \in Callers |-> 0]
    /\ is_short_circuiting = [c \in Callers |-> FALSE]
    /\ abort_requested = [c \in Callers |-> FALSE]
    /\ result = [c \in Callers |-> {}]
    /\ apc = "idle"
    /\ atarget = None
    /\ sent = [c \in Callers |-> <<>>]
    /\ launched = [c \in Callers |-> {}]
    /\ timed_out = [c \in Callers |-> FALSE]
    /\ abort_in_case = FALSE
    /\ abort_seen = [c \in Callers |-> -1]
    /\ terminal = [c \in Callers |-> ""]
    /\ abort_repeat = FALSE

\* ------------------------------------------------------------------ helpers
flat == flattened_cases(problem)

\* judge_conn.send(m) in the worker
TerminalTags == {"COMPILE_ERROR", "GRADING_END", "GRADING_ABORTED", "UNHANDLED_EXCEPTION"}

WorkerSend(c, m) ==
    /\ Len(w2s[c]) < MaxPipe
    /\ w2s' = [w2s EXCEPT ![c] = Append(@, m)]
    /\ sent' = [sent EXCEPT ![c] = Append(@, m)]
    /\ terminal' = [terminal EXCEPT ![c] = IF Tag(m) \in TerminalTags THEN Tag(m) ELSE @]

\* The worker process c stops existing (exit, kill or crash): its memory and
\* its end of the pipe are gone; what it had written stays readable.
WorkerGone(c, how) ==
    /\ proc' = [proc EXCEPT ![c] = how]
    /\ wpc' = [wpc EXCEPT ![c] = "none"]
    /\ lpc' = [lpc EXCEPT ![c] = "none"]
    /\ idx' = [idx EXCEPT ![c] = 0]
    /\ case_number' = [case_number EXCEPT ![c] = 0]
    /\ is_short_circuiting' = [is_short_circuiting EXCEPT ![c] = FALSE]
    /\ abort_requested' = [abort_requested EXCEPT ![c] = FALSE]
    /\ result' = [result EXCEPT ![c] = {}]
    /\ s2w' = [s2w EXCEPT ![c] = <<>>]
    /\ sent' = [sent EXCEPT ![c] = <<>>]
    /\ launched' = [launched EXCEPT ![c] = {}]
    /\ abort_seen' = [abort_seen EXCEPT ![c] = -1]

\* multiprocessing.Process.kill() on worker c
KillNoop(c) == UNCHANGED <<proc, wvars, s2w, sent, launched, abort_seen>>
Kill(c) == WorkerGone(c, "killed")

Alive(c) == proc[c] = "alive"

\* ------------------------------------------------------ the worker process
\* judge.py 147-159: HELLO, then the inbound listener is started
WorkerHello(c) ==
    /\ Alive(c) /\ wpc[c] = "start"
    /\ WorkerSend(c, Plain("HELLO"))
    /\ wpc' = [wpc EXCEPT ![c] = "build"]
    /\ lpc' = [lpc EXCEPT ![c] = "run"]
    /\ UNCHANGED <<problem, cvars, gvars, kvars, jvars, short_circuit, proc, sent_sigkill, s2w, idx,
                   case_number, is_short_circuiting, abort_requested, result,
                   avars, launched, timed_out, abort_in_case, abort_seen, abort_repeat>>

\* judge.py 180-182: after COMPILE_ERROR the generator returns
AfterCompileErrorGoesOn == "begin"
AfterCompileError == "bye"

\* judge.py 172-186: the problem and the grader are built
WorkerBuild(c) ==
    /\ Alive(c) /\ wpc[c] = "build"
    /\ \E o \in {"compile_error", "warning", "ok"} :
         CASE o = "compile_error" ->
                /\ WorkerSend(c, Plain("COMPILE_ERROR"))
                /\ wpc' = [wpc EXCEPT ![c] = AfterCompileError]
           [] o = "warning" ->
                /\ WorkerSend(c, Plain("COMPILE_MESSAGE"))
                /\ wpc' = [wpc EXCEPT ![c] = "begin"]
           [] o = "ok" ->
                /\ UNCHANGED <<w2s, sent, terminal>>
                /\ wpc' = [wpc EXCEPT ![c] = "begin"]
    /\ UNCHANGED <<problem, cvars, gvars, kvars, jvars, short_circuit, proc, sent_sigkill, s2w, lpc, idx,
                   case_number, is_short_circuiting, abort_requested, result,
                   avars, launched, timed_out, abort_in_case, abort_seen, abort_repeat>>

\* judge.py 188
WorkerGradingBegin(c) ==
    /\ Alive(c) /\ wpc[c] = "begin"
    /\ WorkerSend(c, Plain("GRADING_BEGIN"))
    /\ wpc' = [wpc EXCEPT ![c] = "loop"]
    /\ UNCHANGED <<problem, cvars, gvars, kvars, jvars, short_circuit, proc, sent_sigkill, s2w, lpc, idx,
                   case_number, is_short_circuiting, abort_requested, result,
                   avars, launched, timed_out, abort_in_case, abort_seen, abort_repeat>>

\* judge.py 205-210: the case is numbered; it is short-circuited or its
\* child is launched (grade() is entered)
CaseStart(c) ==
    /\ case_number' = [case_number EXCEPT ![c] = NextCaseNumber(@)]
    /\ IF is_short_circuiting[c]
       THEN /\ result' = [result EXCEPT ![c] = SCResult]
            /\ wpc' = [wpc EXCEPT ![c] = "result"]
            /\ UNCHANGED launched
       ELSE /\ result' = [result EXCEPT ![c] = {}]
            /\ wpc' = [wpc EXCEPT ![c] = "grading"]
            /\ launched' = [launched EXCEPT ![c] = @ \cup {case_number'[c]}]

\* judge.py 202-204 and 222: the head of the case loop
WorkerLoop(c) ==
    /\ Alive(c) /\ wpc[c] = "loop"
    /\ IF idx[c] = Len(flat)
       THEN /\ WorkerSend(c, Plain("GRADING_END"))
            /\ wpc' = [wpc EXCEPT ![c] = "bye"]
            /\ UNCHANGED <<case_number, result, launched>>
       ELSE IF flat[idx[c] + 1] # None
            THEN /\ WorkerSend(c, Msg("BATCH_BEGIN", flat[idx[c] + 1], 0, {}))
                 /\ wpc' = [wpc EXCEPT ![c] = "case"]
                 /\ UNCHANGED <<case_number, result, launched>>
            ELSE /\ CaseStart(c)
                 /\ UNCHANGED <<w2s, sent, terminal>>
    /\ UNCHANGED <<problem, cvars, gvars, kvars, jvars, short_circuit, proc, sent_sigkill, s2w, lpc, idx,
                   is_short_circuiting, abort_requested,
                   avars, timed_out, abort_in_case, abort_seen, abort_repeat>>

\* judge.py 205-210 after a BATCH_BEGIN
WorkerCase(c) ==
    /\ Alive(c) /\ wpc[c] = "case"
    /\ CaseStart(c)
    /\ UNCHANGED <<problem, cvars, gvars, kvars, jvars, svars, lpc, idx,
                   is_short_circuiting, abort_requested,
                   avars, sent, timed_out, abort_in_case, abort_seen, terminal, abort_repeat>>

\* judge.py 212-213: after GRADING_ABORTED the generator returns
AfterGradingAbortedGoesOn == "result"
AfterGradingAborted == "bye"

\* judge.py 210-215: grade() returns, the abort flag is looked at
WorkerGradeEnd(c) ==
    /\ Alive(c) /\ wpc[c] = "grading"
    /\ \E beh \in Behaviours :
         LET flags == grade(beh) IN
         IF abort_requested[c]
         THEN /\ WorkerSend(c, Plain("GRADING_ABORTED"))
              /\ wpc' = [wpc EXCEPT ![c] = AfterGradingAborted]
              /\ result' = [result EXCEPT ![c] = {}]
              /\ UNCHANGED is_short_circuiting
         ELSE /\ result' = [result EXCEPT ![c] = flags]
              /\ is_short_circuiting' =
                    [is_short_circuiting EXCEPT
                        ![c] = @ \/ ShortCircuitTriggered(flags, short_circuit[c])]
              /\ wpc' = [wpc EXCEPT ![c] = "result"]
              /\ UNCHANGED <<w2s, sent, terminal>>
    /\ UNCHANGED <<problem, cvars, gvars, kvars, jvars, short_circuit, proc, sent_sigkill, s2w, lpc, idx,
                   case_number, abort_requested,
                   avars, launched, timed_out, abort_in_case, abort_seen, abort_repeat>>

\* judge.py 217-220
WorkerResult(c) ==
    /\ Alive(c) /\ wpc[c] = "result"
    /\ LET b == flat[idx[c] + 1] IN
         /\ WorkerSend(c, Msg("RESULT", b, case_number[c], result[c]))
         /\ IF b # None
            THEN /\ wpc' = [wpc EXCEPT ![c] = "batch_end"]
                 /\ UNCHANGED idx
            ELSE /\ wpc' = [wpc EXCEPT ![c] = "loop"]
                 /\ idx' = [idx EXCEPT ![c] = @ + 1]
    /\ result' = [result EXCEPT ![c] = {}]
    /\ UNCHANGED <<problem, cvars, gvars, kvars, jvars, short_circuit, proc, sent_sigkill, s2w, lpc,
                   case_number, is_short_circuiting, abort_requested,
                   avars, launched, timed_out, abort_in_case, abort_seen, abort_repeat>>

\* judge.py 219-220
WorkerBatchEnd(c) ==
    /\ Alive(c) /\ wpc[c] = "batch_end"
    /\ WorkerSend(c, Msg("BATCH_END", flat[idx[c] + 1], 0, {}))
    /\ wpc' = [wpc EXCEPT ![c] = "loop"]
    /\ idx' = [idx EXCEPT ![c] = @ + 1]
    /\ UNCHANGED <<problem, cvars, gvars, kvars, jvars, short_circuit, proc, sent_sigkill, s2w, lpc,
                   case_number, is_short_circuiting, abort_requested, result,
                   avars, launched, timed_out, abort_in_case, abort_seen, abort_repeat>>

\* judge.py 165-166: an exception leaves _grade_cases while the problem or
\* the grader is built (172-179), while the cases are read (192) or inside
\* grade() (210)
WorkerException(c) ==
    /\ Alive(c)
    /\ \/ wpc[c] \in {"build", "grading"}
       \/ wpc[c] = "loop" /\ idx[c] = 0
    /\ WorkerSend(c, Plain("UNHANDLED_EXCEPTION"))
    /\ wpc' = [wpc EXCEPT ![c] = "bye"]
    /\ result' = [result EXCEPT ![c] = {}]
    /\ UNCHANGED <<problem, cvars, gvars, kvars, jvars, short_circuit, proc, sent_sigkill, s2w, lpc, idx,
                   case_number, is_short_circuiting, abort_requested,
                   avars, launched, timed_out, abort_in_case, abort_seen, abort_repeat>>

\* judge.py 164 and 167: the generator is finished, its locals are gone
WorkerBye(c) ==
    /\ Alive(c) /\ wpc[c] = "bye"
    /\ WorkerSend(c, Plain("BYE"))
    /\ wpc' = [wpc EXCEPT ![c] = "join"]
    /\ idx' = [idx EXCEPT ![c] = 0]
    /\ case_number' = [case_number EXCEPT ![c] = 0]
    /\ is_short_circuiting' = [is_short_circuiting EXCEPT ![c] = FALSE]
    /\ UNCHANGED <<problem, cvars, gvars, kvars, jvars, short_circuit, proc, sent_sigkill, s2w, lpc,
                   abort_requested, result,
                   avars, launched, timed_out, abort_in_case, abort_seen, abort_repeat>>

\* judge.py 169: the listener has returned or the join timed out; the
\* process ends
WorkerExit(c) ==
    /\ Alive(c) /\ wpc[c] = "join"
    /\ WorkerGone(c, "exited")
    /\ UNCHANGED <<problem, cvars, gvars, kvars, jvars, short_circuit, sent_sigkill, w2s, terminal,
                   avars, timed_out, abort_in_case, abort_repeat>>

\* the worker process dies on its own (signal, out of memory)
WorkerCrash(c) ==
    /\ Alive(c) /\ wpc[c] # "join"
    /\ WorkerGone(c, "crashed")
    /\ UNCHANGED <<problem, cvars, gvars, kvars, jvars, short_circuit, sent_sigkill, w2s, terminal,
                   avars, timed_out, abort_in_case, abort_repeat>>

\* judge.py 224-225 (the grader's own abort_grading is not part of the flag)
do_abort(c) ==
    /\ abort_requested' = [abort_requested EXCEPT ![c] = TRUE]
    /\ abort_seen' = [abort_seen EXCEPT
                        ![c] = IF @ = -1 THEN Len(sent[c]) ELSE @]

\* judge.py 150-156: one message of the inbound listener
Listener(c) ==
    /\ Alive(c) /\ lpc[c] = "run" /\ s2w[c] # <<>>
    /\ s2w' = [s2w EXCEPT ![c] = Tail(@)]
    /\ IF Tag(Head(s2w[c])) = "BYE"
       THEN /\ lpc' = [lpc EXCEPT ![c] = "returned"]
            /\ UNCHANGED <<abort_requested, abort_seen>>
       ELSE /\ do_abort(c)
            /\ UNCHANGED lpc
    /\ UNCHANGED <<problem, cvars, gvars, kvars, jvars, short_circuit, proc, sent_sigkill, w2s,
                   wpc, idx, case_number, is_short_circuiting, result,
                   avars, sent, launched, timed_out, abort_in_case, terminal, abort_repeat>>

\* ------------------------------------------------- the supervisor's threads
\* worker_process_conn.send(m) in the supervisor: a send into the pipe of a
\* dead worker fails (judge.py 141-144 catches it) and changes nothing
SendToWorkerAlways(c, m) == [s2w EXCEPT ![c] = Append(@, m)]
SendToWorker(c, m) == IF Alive(c) THEN [s2w EXCEPT ![c] = Append(@, m)] ELSE s2w

\* judge.py 53: threading.Lock.acquire() returns only when the lock is free
CanAcquireAlways == TRUE
CanAcquire == grading_lock = None

\* judge.py 53
Acquire(c) ==
    /\ cpc[c] = "idle"
    /\ CanAcquire
    /\ grading_lock' = c
    /\ cpc' = [cpc EXCEPT ![c] = "locked"]
    /\ UNCHANGED <<problem, cvars, gvars, kvars, current_judge_worker, outcome, gpc, ipc_ready, results, yielded,
                   svars, wvars, avars, hvars>>

\* judge.py 54-64 and 104-117: the JudgeWorker is built, its process is
\* started and the grading thread with it
Spawn(c) ==
    /\ cpc[c] = "locked"
    /\ IF current_judge_worker # None
       THEN \* the assertion of line 54 fails; the lock stays held
            /\ cpc' = [cpc EXCEPT ![c] = "raised"]
            /\ outcome' = [outcome EXCEPT ![c] = "AssertionError"]
            /\ UNCHANGED <<current_judge_worker, gpc, short_circuit, proc, wpc>>
       ELSE /\ \E sc \in BOOLEAN : short_circuit' = [short_circuit EXCEPT ![c] = sc]
            /\ proc' = [proc EXCEPT ![c] = "alive"]
            /\ wpc' = [wpc EXCEPT ![c] = "start"]
            /\ current_judge_worker' = c
            /\ gpc' = [gpc EXCEPT ![c] = "recv"]
            /\ cpc' = [cpc EXCEPT ![c] = "wait"]
            /\ UNCHANGED outcome
    /\ UNCHANGED <<problem, cvars, gvars, kvars, grading_lock, ipc_ready, results, yielded, sent_sigkill, w2s, s2w,
                   lpc, idx, case_number, is_short_circuiting, abort_requested, result,
                   avars, hvars>>

\* judge.py 57: the pipe or the process cannot be created; the exception
\* leaves begin_grading
SpawnFail(c) ==
    /\ cpc[c] = "locked"
    /\ current_judge_worker = None
    /\ cpc' = [cpc EXCEPT ![c] = "raised"]
    /\ outcome' = [outcome EXCEPT ![c] = "OSError"]
    /\ UNCHANGED <<problem, cvars, gvars, kvars, grading_lock, current_judge_worker, gpc, ipc_ready, results, yielded,
                   svars, wvars, avars, hvars>>

\* judge.py 57-64: the JudgeWorker is built and its process started, but the
\* grading thread cannot be started (Thread.start() raises RuntimeError); the
\* exception leaves begin_grading and nobody receives from the worker
SpawnThreadFail(c) ==
    /\ cpc[c] = "locked"
    /\ current_judge_worker = None
    /\ \E sc \in BOOLEAN : short_circuit' = [short_circuit EXCEPT ![c] = sc]
    /\ proc' = [proc EXCEPT ![c] = "alive"]
    /\ wpc' = [wpc EXCEPT ![c] = "start"]
    /\ current_judge_worker' = c
    /\ cpc' = [cpc EXCEPT ![c] = "raised"]
    /\ outcome' = [outcome EXCEPT ![c] = "RuntimeError"]
    /\ UNCHANGED <<problem, cvars, gvars, kvars, grading_lock, gpc, ipc_ready, results, yielded,
                   sent_sigkill, w2s, s2w,
                   lpc, idx, case_number, is_short_circuiting, abort_requested, result,
                   avars, hvars>>

\* judge.py 65-66: the ready signal is set and the grading thread has ended
Join(c) ==
    /\ cpc[c] = "wait"
    /\ ipc_ready[c]
    /\ gpc[c] \in {"done", "raised"}
    /\ cpc' = [cpc EXCEPT ![c] = "cleanup"]
    /\ UNCHANGED <<problem, cvars, gvars, kvars, grading_lock, current_judge_worker, outcome, gpc, ipc_ready,
                   results, yielded, svars, wvars, avars, hvars>>

\* judge.py 69
CleanupWorkerSkipped(c) == UNCHANGED current_judge_worker
CleanupWorker(c) == current_judge_worker' = None

\* judge.py 68-71: the results list goes to the caller and the Judge lets go
\* of the JudgeWorker
Cleanup(c) ==
    /\ cpc[c] = "cleanup"
    /\ CleanupWorker(c)
    /\ grading_lock' = None
    /\ cpc' = [cpc EXCEPT ![c] = "returned"]
    /\ outcome' = [outcome EXCEPT ![c] = "list"]
    /\ results' = [results EXCEPT ![c] = <<>>]
    /\ yielded' = [yielded EXCEPT ![c] = <<>>]
    /\ gpc' = [gpc EXCEPT ![c] = "none"]
    /\ ipc_ready' = [ipc_ready EXCEPT ![c] = FALSE]
    /\ short_circuit' = [short_circuit EXCEPT ![c] = FALSE]
    /\ sent' = [sent EXCEPT ![c] = <<>>]
    /\ launched' = [launched EXCEPT ![c] = {}]
    /\ abort_seen' = [abort_seen EXCEPT ![c] = -1]
    /\ terminal' = [terminal EXCEPT ![c] = ""]
    /\ UNCHANGED <<problem, cvars, gvars, kvars, proc, sent_sigkill, w2s, s2w, wvars, avars,
                   timed_out, abort_in_case, abort_repeat>>

\* judge.py 85
AppendResult(rs, m) == Append(rs, <<m[2], m[3], m[4]>>)

\* judge.py 127: the message ends the receive loop
IsByeNever(m) == FALSE
IsBye(m) == Tag(m) = "BYE"

\* judge.py 89-94 and 126-130: one message is received; BYE is answered and
\* ends the loop, any other message is yielded and dispatched
SupRecv(c) ==
    /\ gpc[c] = "recv"
    /\ w2s[c] # <<>>
    /\ LET m == Head(w2s[c]) IN
         /\ w2s' = [w2s EXCEPT ![c] = Tail(@)]
         /\ IF IsBye(m)
            THEN /\ s2w' = SendToWorker(c, Plain("BYE"))
                 /\ gpc' = [gpc EXCEPT ![c] = IF Alive(c) THEN "done" ELSE "raised"]
                 /\ UNCHANGED yielded
            ELSE /\ yielded' = [yielded EXCEPT ![c] = Append(@, m)]
                 /\ UNCHANGED <<s2w, gpc>>
         /\ ipc_ready' = [ipc_ready EXCEPT ![c] = @ \/ Tag(m) = "HELLO"]
         /\ results' = [results EXCEPT
                           ![c] = IF Tag(m) = "RESULT" THEN AppendResult(@, m) ELSE @]
    /\ UNCHANGED <<problem, cvars, gvars, kvars, grading_lock, current_judge_worker, cpc, outcome,
                   short_circuit, proc, sent_sigkill, wvars, avars, hvars>>

\* judge.py 122-125: nothing arrived within recv_timeout
SupTimeout(c) ==
    /\ gpc[c] = "recv"
    /\ w2s[c] = <<>>
    /\ Alive(c)
    /\ Kill(c)
    /\ gpc' = [gpc EXCEPT ![c] = "raised"]
    /\ timed_out' = [timed_out EXCEPT ![c] = TRUE]
    /\ UNCHANGED <<problem, cvars, gvars, kvars, grading_lock, current_judge_worker, cpc, outcome, ipc_ready,
                   results, yielded, short_circuit, sent_sigkill, w2s, avars,
                   abort_in_case, terminal, abort_repeat>>

\* judge.py 122 and 126: the worker is gone and the pipe is drained; poll()
\* reports the end of the stream and recv() raises EOFError
SupEOF(c) ==
    /\ gpc[c] = "recv"
    /\ w2s[c] = <<>>
    /\ proc[c] \in {"exited", "killed", "crashed"}
    /\ gpc' = [gpc EXCEPT ![c] = "raised"]
    /\ UNCHANGED <<problem, cvars, gvars, kvars, grading_lock, current_judge_worker, cpc, outcome, ipc_ready,
                   results, yielded, svars, wvars, avars, hvars>>

\* ------------------------------------------------------- abort_grading()
\* judge.py 97-100 and 140-144
AbortRequest ==
    /\ apc = "idle"
    /\ atarget' = current_judge_worker
    /\ abort_repeat' = (atarget # None /\ current_judge_worker = atarget)
    /\ IF current_judge_worker = None
       THEN /\ UNCHANGED <<apc, s2w>>
            /\ abort_in_case' = FALSE
       ELSE /\ s2w' = SendToWorker(current_judge_worker, Plain("REQUEST_ABORT"))
            /\ apc' = "wait"
            /\ abort_in_case' = (wpc[current_judge_worker] = "grading")
    /\ UNCHANGED <<problem, cvars, gvars, kvars, jvars, short_circuit, proc, sent_sigkill, w2s, wvars,
                   sent, launched, timed_out, abort_seen, terminal>>

\* judge.py 133-135: the worker is not alive, at once or when join returns
AbortWaitDone ==
    /\ apc = "wait"
    /\ ~Alive(atarget)
    /\ apc' = "idle"
    /\ UNCHANGED <<problem, cvars, gvars, kvars, jvars, svars, wvars, atarget, hvars>>

\* judge.py 134-138: the worker is still alive after IPC_TIMEOUT
AbortWaitKill ==
    /\ apc = "wait"
    /\ Alive(atarget)
    /\ sent_sigkill' = [sent_sigkill EXCEPT ![atarget] = TRUE]
    /\ Kill(atarget)
    /\ apc' = "idle"
    /\ UNCHANGED <<problem, cvars, gvars, kvars, jvars, short_circuit, w2s, atarget,
                   timed_out, abort_in_case, terminal, abort_repeat>>

\* ------------------------------------------- the compiled-artifact cache
\* compiled_executor.py 31-32: the cache key is a digest of the executor
\* class and of get_binary_cache_key(); a key stands for one such digest.
Keys == 1..NumKeys
\* Executor instances, numbered in the order of their construction; the
\* working directory made by instance i (mkdtemp) is directory i.
Executors == 1..MaxExecutors

NoObj == [born |-> FALSE, key |-> None, dir |-> None, is_cached |-> FALSE, held |-> FALSE,
          dest_dir |-> ""]

\* compiled_executor.py 19-21: an empty lrucache; no instance exists yet
CacheInit ==
    /\ compiled_binary_cache = <<>>
    /\ objs = [i \in Executors |-> NoObj]
    /\ disk = {}
    /\ binaries = {}
    /\ recompiled = FALSE

CachedKeys(cache) == {cache[n][1] : n \in 1..Len(cache)}
InCache(cache, i) == \E n \in 1..Len(cache) : cache[n][2] = i
EntryOf(cache, k) == CHOOSE n \in 1..Len(cache) : cache[n][1] = k

RECURSIVE Without(_, _)
Without(cache, n) ==
    IF cache = <<>> THEN <<>>
    ELSE IF n = 1 THEN Tail(cache)
    ELSE <<Head(cache)>> \o Without(Tail(cache), n - 1)

\* pylru lrucache.__getitem__: the entry becomes the most recently used
Touch(cache, k) ==
    LET n == EntryOf(cache, k) IN <<cache[n]>> \o Without(cache, n)

\* pylru lrucache.__setitem__ on a present key: the value is replaced and the
\* entry becomes the most recently used; the callback is not called
Replace(cache, k, i) == <<<<k, i>>>> \o Without(cache, EntryOf(cache, k))

\* pylru lrucache.__setitem__ on an absent key: when the cache is full the
\* least recently used entry goes, after the callback has been called on it
Evicted(cache) ==
    IF Len(cache) = CacheSize THEN {cache[Len(cache)][2]} ELSE {}

Insert(cache, k, i) ==
    <<<<k, i>>>> \o (IF Len(cache) = CacheSize THEN Without(cache, Len(cache)) ELSE cache)

\* base_executor.py 70-79 under compiled_executor.py 62-64: the directories
\* that the cleanup() of the instances in `dead` removes
Removed(os, dead) == {os[i].dir : i \in {j \in dead : ~os[j].is_cached /\ os[j].dir # None}}

\* compiled_executor.py 36: os.path.isfile(executor._executable)
ExecutableExistsAlways(dir) == TRUE
ExecutableExists(dir) == dir \in binaries

\* compiled_executor.py 16-17: the callback of the cache on the instance it
\* evicts
cleanup_cache_entry_noop(executor) == executor
cleanup_cache_entry(executor) == [executor EXCEPT !.is_cached = FALSE]

\* compiled_executor.py 25-26 and base_executor.py 58: where the instance
\* makes its working directory
DestDir(cached) == IF cached THEN "compiled_binary_cache_dir" ELSE "tempdir"

\* base_executor.py 84-85: the instances in `dead` are destroyed; nothing of
\* them is left but the directories their cleanup() did not remove
Gone == [born |-> TRUE, key |-> None, dir |-> None, is_cached |-> FALSE, held |-> FALSE,
         dest_dir |-> ""]
Destroyed(os, dead) == [j \in Executors |-> IF j \in dead THEN Gone ELSE os[j]]

\* The instance constructed last, None before the first construction.
LastExecutor ==
    IF \E i \in Executors : objs[i].born
    THEN CHOOSE i \in Executors : objs[i].born /\ \A j \in Executors : objs[j].born => j <= i
    ELSE None

\* <<key, cached>> of the construction before, if its instance is still
\* there and its executable too
prev_build ==
    LET j == LastExecutor IN
    IF j # None /\ objs[j].dir \in binaries
    THEN <<objs[j].key, objs[j].dest_dir = DestDir(TRUE)>>
    ELSE <<None, FALSE>>

\* The keys that can be told apart: those of the instances there are, and
\* one more that stands for every key not in use.
KeysInUse == {objs[i].key : i \in {j \in Executors : objs[j].born}} \ {None}
DistinctKeys ==
    KeysInUse \cup (IF Keys \ KeysInUse = {} THEN {}
                    ELSE {CHOOSE k \in Keys \ KeysInUse : \A l \in Keys \ KeysInUse : k <= l})

FreshExecutor == CHOOSE i \in Executors : ~objs[i].born /\ \A j \in Executors : j < i => objs[j].born

\* compiled_executor.py 23-45: _CompiledExecutorMeta.__call__ for key k. An
\* instance nobody refers to any more is destroyed at once (__del__, 84-85).
Construct(k, cached) ==
    /\ \E i \in Executors : ~objs[i].born
    /\ LET i == FreshExecutor
           present == cached /\ k \in CachedKeys(compiled_binary_cache)
           executor == compiled_binary_cache[EntryOf(compiled_binary_cache, k)][2]
           hit == present /\ ExecutableExists(objs[executor].dir)
       IN  IF hit
           THEN \* lines 34-39: adopt the entry's executable and directory
                /\ compiled_binary_cache' = Touch(compiled_binary_cache, k)
                /\ objs' = [objs EXCEPT ![i] =
                              [born |-> TRUE, key |-> k, dir |-> objs[executor].dir,
                               is_cached |-> TRUE, held |-> TRUE,
                               dest_dir |-> DestDir(cached)]]
                /\ recompiled' = FALSE
                /\ UNCHANGED <<disk, binaries>>
           ELSE \* lines 41-42: create_files makes directory i, then compile()
                /\ recompiled' = (prev_build = <<k, cached>>)
                /\ \E compiled \in BOOLEAN :
                     IF ~compiled
                     THEN \* CompileError leaves __call__; the instance is
                          \* destroyed with is_cached as line 28 set it
                          LET failed == [born |-> TRUE, key |-> k, dir |-> i,
                                         is_cached |-> cached, held |-> FALSE,
                                         dest_dir |-> DestDir(cached)]
                          IN  /\ objs' = Destroyed([objs EXCEPT ![i] = failed], {i})
                              /\ disk' = (disk \cup {i}) \ Removed([objs EXCEPT ![i] = failed], {i})
                              /\ binaries' = binaries
                              /\ UNCHANGED compiled_binary_cache
                     ELSE LET made == [born |-> TRUE, key |-> k, dir |-> i,
                                       is_cached |-> cached, held |-> TRUE,
                                       dest_dir |-> DestDir(cached)]
                          IN  IF ~cached
                              THEN /\ objs' = [objs EXCEPT ![i] = made]
                                   /\ disk' = disk \cup {i}
                                   /\ binaries' = binaries \cup {i}
                                   /\ UNCHANGED compiled_binary_cache
                              ELSE \* lines 43-44
                                   LET out == IF present THEN {executor}
                                              ELSE Evicted(compiled_binary_cache)
                                       \* line 17, the eviction callback
                                       os == [j \in Executors |->
                                                IF j = i THEN made
                                                ELSE IF ~present /\ j \in out
                                                     THEN cleanup_cache_entry(objs[j])
                                                     ELSE objs[j]]
                                       dead == {j \in out : ~os[j].held}
                                   IN  /\ compiled_binary_cache' =
                                            IF present
                                            THEN Replace(compiled_binary_cache, k, i)
                                            ELSE Insert(compiled_binary_cache, k, i)
                                       /\ objs' = Destroyed(os, dead)
                                       /\ disk' = (disk \cup {i}) \ Removed(os, dead)
                                       /\ binaries' = (binaries \cup {i}) \ Removed(os, dead)

\* utils/helper_files.py 67-72: a helper program is built with cached=True
CachedConstruct(k) ==
    /\ Construct(k, TRUE)
    /\ UNCHANGED <<pvars, gvars, kvars>>

\* graders/standard.py 90-96: the submission's binary is built in the worker
\* process of its begin_grading call, without the cached argument
generate_binary(k) ==
    /\ Construct(k, FALSE)
    /\ UNCHANGED <<pvars, gvars, kvars>>

\* The holder of instance i lets go of it; unless the cache still refers to
\* the instance, it is destroyed (base_executor.py 84-85).
Release(i) ==
    /\ objs[i].born /\ objs[i].held
    /\ LET os == [objs EXCEPT ![i].held = FALSE]
           dead == IF InCache(compiled_binary_cache, i) THEN {} ELSE {i}
       IN  /\ objs' = Destroyed(os, dead)
           /\ disk' = disk \ Removed(os, dead)
           /\ binaries' = binaries \ Removed(os, dead)
    /\ recompiled' = FALSE
    /\ UNCHANGED compiled_binary_cache
    /\ UNCHANGED <<pvars, gvars, kvars>>

\* compiled_executor.py 36: somebody outside the judge removes the
\* executable in directory d
ExternalRemove(d) ==
    /\ d \in binaries
    /\ binaries' = binaries \ {d}
    /\ recompiled' = FALSE
    /\ UNCHANGED <<compiled_binary_cache, objs, disk>>
    /\ UNCHANGED <<pvars, gvars, kvars>>

\* ------------------------------------------------- one grader, case by case
\* What a case and its child and checker are like: the points of the case,
\* the wall deadline wall_time_factor * time_limit, how long the child runs
\* if nobody stops it, its exit code, whether it writes more than the output
\* limit, and whether its checker runs on error; and what a checker does
\* when it is called.
CheckerOutputs ==
    [kind : {"bool"}, passed : BOOLEAN, points : {0}, feedback : {""}]
    \cup [kind : {"result"}, passed : BOOLEAN, points : 0..MaxPoints, feedback : {""}]
    \cup [kind : {"raises"}, passed : {FALSE}, points : {0}, feedback : {"UnicodeDecodeError"}]

TestCases ==
    [points : 0..MaxPoints, wall : 0..MaxWall, runs : 1..(MaxWall + 1),
     code : {0, 1}, floods : BOOLEAN, run_on_error : BOOLEAN]

NoCase == [points |-> 0, wall |-> 0, runs |-> 1, code |-> 0, floods |-> FALSE,
           run_on_error |-> FALSE]
NoProcess == [state |-> "none", returncode |-> None, is_tle |-> "unset"]
NoCheck == [kind |-> "none", passed |-> FALSE, points |-> 0, feedback |-> ""]
\* Result(case): no flag, no points, no time
NewResult == [result_flag |-> {}, points |-> 0, execution_time |-> 0]

\* signal.SIGKILL as a returncode
Killed == -9

GraderInit(pc) ==
    /\ g_pc = pc
    /\ g_index = 0
    /\ g_sc \in (IF pc = "off" THEN {FALSE} ELSE BOOLEAN)
    /\ g_short = FALSE
    /\ g_case = NoCase
    /\ g_process = NoProcess
    /\ g_result = NewResult
    /\ g_check = NoCheck
    /\ g_ran = FALSE
    /\ g_unicode = FALSE
    /\ g_symlink = <<>>
    /\ g_linked = FALSE
    /\ g_raised = ""
    /\ g_sent = <<>>
    /\ g_abort = FALSE
    /\ g_current_proc = "none"
    /\ g_abort_running = FALSE
    /\ g_killed_by = ""

\* judge.py 202-210: the next case; it is short-circuited or grade() starts
\* (standard.py 16)
GradeCaseStart ==
    /\ g_pc = "loop" /\ g_index < MaxGraded
    /\ \E tc \in TestCases : g_case' = tc
    /\ IF g_short
       THEN /\ g_result' = [NewResult EXCEPT !.result_flag = SCResult]
            /\ g_pc' = "yield"
       ELSE /\ g_result' = NewResult
            /\ g_pc' = "launch"
    /\ g_process' = NoProcess
    /\ g_check' = NoCheck
    /\ g_ran' = FALSE
    /\ g_unicode' = FALSE
    /\ g_current_proc' = IF g_current_proc = "child" THEN "previous" ELSE g_current_proc
    /\ g_abort_running' = FALSE
    /\ g_killed_by' = ""
    /\ UNCHANGED <<g_index, g_sc, g_short, lvars, g_abort>>
    /\ UNCHANGED <<pvars, cvars, kvars>>

\* judge.py 222: no case is left
GradeEnd ==
    /\ g_pc = "loop"
    /\ g_pc' = "end"
    /\ UNCHANGED <<g_index, g_sc, g_short, g_case, g_process, g_result, g_check, g_ran, g_unicode,
                   lvars, bvars>>
    /\ UNCHANGED <<pvars, cvars, kvars>>

\* base_executor.py 162-165: the child is still running when communicate()
\* gives up
StillRunningNever(tc) == FALSE
StillRunning(tc) == tc.runs > tc.wall

\* The working directory _dir of the executor, /t/w, as its components.
DirPath == <<"t", "w">>

\* What the src of a symlink is made of: names and "..".
Components == {"w", "wx", "x", ".."}
SymlinkSources == UNION {[1..n -> Components] : n \in 1..MaxPath}

\* The characters of a component.
Spelled(name) ==
    CASE name = "wx" -> <<"w", "x">>
      [] name = ".." -> <<".", ".">>
      [] OTHER -> <<name>>

\* os.path.abspath on the components of a path that starts at the root:
\* ".." drops the component before it, if there is one
RECURSIVE Norm(_, _)
Norm(done, rest) ==
    IF rest = <<>> THEN done
    ELSE IF Head(rest) = ".."
         THEN Norm(IF done = <<>> THEN done ELSE SubSeq(done, 1, Len(done) - 1), Tail(rest))
    ELSE Norm(Append(done, Head(rest)), Tail(rest))

\* base_executor.py 133: os.path.abspath(os.path.join(self._dir, src))
abspath(src) == Norm(<<>>, DirPath \o src)

\* A path as the string the code handles, character by character.
RECURSIVE PathString(_)
PathString(path) ==
    IF path = <<>> THEN <<>>
    ELSE <<"/">> \o Spelled(Head(path)) \o PathString(Tail(path))

\* os.path.commonprefix of two strings: their longest common prefix,
\* character by character
RECURSIVE commonprefix(_, _)
commonprefix(a, b) ==
    IF a # <<>> /\ b # <<>> /\ Head(a) = Head(b)
    THEN <<Head(a)>> \o commonprefix(Tail(a), Tail(b))
    ELSE <<>>

\* base_executor.py 134: the test a src has to pass
InsideDir(src) ==
    commonprefix(PathString(abspath(src)), PathString(DirPath)) = PathString(DirPath)

RunningChild == [state |-> "running", returncode |-> None, is_tle |-> "unset"]

\* base_executor.py 131-155: the symlink of the case, if it has one, is
\* checked and made, then the child is started. os.symlink fails on the
\* working directory itself and may fail elsewhere.
LaunchStart ==
    /\ g_pc = "launch"
    /\ \E src \in {<<>>} \cup SymlinkSources :
        /\ g_symlink' = src
        /\ \/ /\ src = <<>> \/ (InsideDir(src) /\ abspath(src) # DirPath)
              /\ g_linked' = (src # <<>>)
              /\ g_process' = RunningChild
              /\ g_pc' = "communicate"
              /\ UNCHANGED g_raised
           \/ /\ src # <<>>
              /\ g_raised' = IF InsideDir(src) THEN "OSError" ELSE "InternalError"
              /\ g_linked' = FALSE
              /\ g_pc' = "raised"
              /\ UNCHANGED g_process
    /\ UNCHANGED <<g_index, g_sc, g_short, g_case, g_result, g_check, g_ran, g_unicode, g_sent, bvars>>
    /\ UNCHANGED <<pvars, cvars, kvars>>

\* base_executor.py 158-166 and standard.py 62: when there is a wall time
\* the child is waited for inside launch(); only then launch() returns and
\* _current_proc is assigned
Launch ==
    /\ g_pc = "communicate"
    /\ g_process' =
         IF g_case.wall = 0
         THEN g_process
         ELSE IF StillRunning(g_case)
              THEN \* 163-165: killed, not waited for
                   [state |-> "killed", returncode |-> None, is_tle |-> "true"]
              ELSE \* communicate() has waited for the child
                   [state |-> "reaped", returncode |-> g_case.code, is_tle |-> "false"]
    /\ g_killed_by' = IF g_case.wall # 0 /\ StillRunning(g_case) THEN "deadline" ELSE ""
    /\ g_current_proc' = "child"
    /\ g_symlink' = <<>>
    /\ g_linked' = FALSE
    /\ g_pc' = "interact"
    /\ UNCHANGED <<g_index, g_sc, g_short, g_case, g_result, g_check, g_ran, g_unicode,
                   g_raised, g_sent, g_abort, g_abort_running>>
    /\ UNCHANGED <<pvars, cvars, kvars>>

\* Popen.kill() through the handle _current_proc: it reaches the child at
\* hand only if the handle is that child and the child still runs.
abort_grading(process, current_proc) ==
    IF current_proc = "child" /\ process.state = "running"
    THEN [process EXCEPT !.state = "killed"]
    ELSE process

\* judge.py 155-156 and 224-227: the listener has received REQUEST_ABORT
\* while the grader is at work
GradeAbort ==
    /\ g_pc \in {"loop", "launch", "communicate", "interact", "populate", "check",
                 "finish", "graded", "yield"}
    /\ ~g_abort
    /\ g_abort' = TRUE
    /\ g_abort_running' = (g_process.state = "running")
    /\ g_process' = abort_grading(g_process, g_current_proc)
    /\ g_killed_by' = IF g_process' # g_process THEN "abort" ELSE g_killed_by
    /\ UNCHANGED <<g_pc, g_index, g_sc, g_short, g_case, g_result, g_check, g_ran, g_unicode,
                   lvars, g_current_proc>>
    /\ UNCHANGED <<pvars, cvars, kvars>>

\* judge.py 165-166: the exception has left _grade_cases
GradeUnhandled ==
    /\ g_pc = "raised"
    /\ g_sent' = <<"UNHANDLED_EXCEPTION">>
    /\ g_pc' = "unhandled"
    /\ UNCHANGED <<g_index, g_sc, g_short, g_case, g_process, g_result, g_check, g_ran, g_unicode,
                   g_symlink, g_linked, g_raised, bvars>>
    /\ UNCHANGED <<pvars, cvars, kvars>>

\* judge.py 167
GradeBye ==
    /\ g_pc = "unhandled"
    /\ g_sent' = Append(g_sent, "BYE")
    /\ g_pc' = "bye"
    /\ UNCHANGED <<g_index, g_sc, g_short, g_case, g_process, g_result, g_check, g_ran, g_unicode,
                   g_symlink, g_linked, g_raised, bvars>>
    /\ UNCHANGED <<pvars, cvars, kvars>>

\* standard.py 87: process.wait()
Reaped(process) ==
    IF process.state = "killed"
    THEN [process EXCEPT !.state = "reaped", !.returncode = Killed]
    ELSE process

\* standard.py 72-88: the second communicate() and the wait. A Popen never
\* raises OutputLimitExceeded: what the child wrote is read to its end.
Interact ==
    /\ g_pc = "interact"
    /\ IF g_process.state = "running"
       THEN \* 79-82: no time is left, the child is killed
            /\ g_result' = [g_result EXCEPT !.result_flag = @ \cup {"TLE"}]
            /\ g_process' = Reaped([g_process EXCEPT !.state = "killed"])
            /\ g_killed_by' = "deadline"
       ELSE /\ g_process' = Reaped(g_process)
            /\ UNCHANGED g_killed_by
            /\ IF g_killed_by = "abort"
               THEN \* communicate(timeout=0) on a child that is already dead
                    \* may or may not find its time used up
                    \E expired \in BOOLEAN :
                        g_result' = [g_result EXCEPT !.result_flag =
                                        @ \cup (IF expired THEN {"TLE"} ELSE {})]
               ELSE UNCHANGED g_result
    /\ g_pc' = "populate"
    /\ UNCHANGED <<g_index, g_sc, g_short, g_case, g_check, g_ran, g_unicode,
                   lvars, g_abort, g_current_proc, g_abort_running>>
    /\ UNCHANGED <<pvars, cvars, kvars>>

\* base_executor.py 107: a Popen has no execution_time attribute
ExecutionTime(process) == 0

\* base_executor.py 105-119 through standard.py 33-34
populate_result ==
    /\ g_pc = "populate"
    /\ g_result' =
         [g_result EXCEPT
            !.execution_time = ExecutionTime(g_process),
            !.result_flag =
                @ \cup (IF g_process.returncode # 0 THEN {"RTE"} ELSE {})
                  \cup (IF g_process.is_tle = "true" THEN {"TLE"} ELSE {})]
    /\ g_pc' = "check"
    /\ UNCHANGED <<g_index, g_sc, g_short, g_case, g_process, g_check, g_ran, g_unicode, lvars, bvars>>
    /\ UNCHANGED <<pvars, cvars, kvars>>

\* standard.py 38: the checker is called
CheckerInvokedAlways(result_flag, run_on_error) == TRUE
CheckerInvoked(result_flag, run_on_error) == result_flag = {} \/ run_on_error

\* standard.py 36-59
CheckResult ==
    /\ g_pc = "check"
    /\ IF CheckerInvoked(g_result.result_flag, g_case.run_on_error)
       THEN /\ g_ran' = TRUE
            /\ \E check \in CheckerOutputs :
                 /\ g_unicode' = (check.kind = "raises")
                 /\ g_check' =
                      IF check.kind = "raises"
                      THEN [kind |-> "result", passed |-> FALSE, points |-> 0,
                            feedback |-> "invalid unicode"]
                      ELSE check
       ELSE /\ g_ran' = FALSE
            /\ g_unicode' = FALSE
            /\ g_check' = [kind |-> "bool", passed |-> FALSE, points |-> 0, feedback |-> ""]
    /\ g_pc' = "finish"
    /\ UNCHANGED <<g_index, g_sc, g_short, g_case, g_process, g_result, lvars, bvars>>
    /\ UNCHANGED <<pvars, cvars, kvars>>

\* standard.py 24-25: a bare boolean becomes a CheckerResult
Lifted(check, tc) ==
    IF check.kind = "result" THEN check
    ELSE [kind |-> "result", passed |-> check.passed,
          points |-> IF check.passed THEN tc.points ELSE 0, feedback |-> ""]

\* standard.py 24-31
GradeFinish ==
    /\ g_pc = "finish"
    /\ LET check == Lifted(g_check, g_case) IN
         g_result' = [g_result EXCEPT
                        !.result_flag = @ \cup (IF check.passed THEN {"AC"} ELSE {"WA"}),
                        !.points = check.points]
    /\ g_pc' = "graded"
    /\ UNCHANGED <<g_index, g_sc, g_short, g_case, g_process, g_check, g_ran, g_unicode, lvars, bvars>>
    /\ UNCHANGED <<pvars, cvars, kvars>>

\* judge.py 211-213: an abort was requested before grade() returned
GradeAborted ==
    /\ g_pc = "graded" /\ g_abort
    /\ g_pc' = "aborted"
    /\ UNCHANGED <<g_index, g_sc, g_short, g_case, g_process, g_result, g_check, g_ran, g_unicode,
                   lvars, bvars>>
    /\ UNCHANGED <<pvars, cvars, kvars>>

\* judge.py 214-215: no abort request is pending
GradeShortCircuit ==
    /\ g_pc = "graded" /\ ~g_abort
    /\ g_short' = (g_short \/ ShortCircuitTriggered(g_result.result_flag, g_sc))
    /\ g_pc' = "yield"
    /\ UNCHANGED <<g_index, g_sc, g_case, g_process, g_result, g_check, g_ran, g_unicode, lvars, bvars>>
    /\ UNCHANGED <<pvars, cvars, kvars>>

\* judge.py 217-220: the RESULT event carries g_result
GradeYield ==
    /\ g_pc = "yield"
    /\ g_index' = g_index + 1
    /\ g_pc' = "loop"
    /\ UNCHANGED <<g_sc, g_short, g_case, g_process, g_result, g_check, g_ran, g_unicode, lvars, bvars>>
    /\ UNCHANGED <<pvars, cvars, kvars>>

\* ------------------------------------------------------------ the checkers
\* Bytes over an alphabet of one letter, the space and the newline, as
\* sequences of at most MaxLen characters.
Alphabet == {"a", "sp", "lf"}
Bytes == UNION {[1..n -> Alphabet] : n \in 0..MaxLen}

\* The whitespace bytes.strip() removes, as far as the alphabet has it.
IsSpace(ch) == ch \in {"sp", "lf"}

RECURSIVE lstrip(_)
lstrip(b) == IF b # <<>> /\ IsSpace(Head(b)) THEN lstrip(Tail(b)) ELSE b

RECURSIVE rstrip(_)
rstrip(b) ==
    IF b # <<>> /\ IsSpace(b[Len(b)]) THEN rstrip(SubSeq(b, 1, Len(b) - 1)) ELSE b

\* bytes.strip(): leading and trailing whitespace removed
strip(b) == rstrip(lstrip(b))

\* identical.py 9-12 and standard.py 8-11: the Python fallback of `standard`
standard_fallback(judge, process) == strip(judge) = strip(process)

\* The whitespace b starts with holds a newline.
RECURSIVE BreaksLine(_)
BreaksLine(b) ==
    b # <<>> /\ IsSpace(Head(b)) /\ (Head(b) = "lf" \/ BreaksLine(Tail(b)))

\* Every run of whitespace inside b becomes one character: a newline if the
\* run breaks the line, a space if it does not.
RECURSIVE Collapse(_)
Collapse(b) ==
    IF b = <<>> THEN <<>>
    ELSE IF IsSpace(Head(b))
         THEN <<IF BreaksLine(b) THEN "lf" ELSE "sp">> \o Collapse(lstrip(b))
    ELSE <<Head(b)>> \o Collapse(Tail(b))

\* Trim plus collapse-whitespace normalization.
Normalized(b) == Collapse(strip(b))

\* `standard` of the C extension _checker, whose source _checker.c is not in
\* the tree: equality after trim and collapse of whitespace.
standard_ext(judge, process) == Normalized(judge) = Normalized(process)

\* identical.py 5-12: the extension if its import succeeded, else the
\* fallback
standard_of_identical(ext, judge, process) ==
    IF ext THEN standard_ext(judge, process) ELSE standard_fallback(judge, process)

\* What a checker returns: a bare bool or a CheckerResult.
Bool(b) == [kind |-> "bool", passed |-> b, points |-> 0, feedback |-> ""]
CheckerResult(passed, points, feedback) ==
    [kind |-> "result", passed |-> passed, points |-> points, feedback |-> feedback]
PresentationError == "Presentation Error, check your whitespace"

\* identical.py 14-20 (utf8bytes leaves bytes as they are)
identical_check(process, judge, pe_allowed, ext) ==
    IF judge = process THEN Bool(TRUE)
    ELSE CheckerResult(FALSE, 0,
            IF pe_allowed /\ standard_of_identical(ext, judge, process)
            THEN PresentationError ELSE "")

\* standard.py 4-16: the import of `.checker` names a module the tree and
\* setup.py never provide, so _checker is the fallback
standard_check(process, judge) == Bool(standard_fallback(judge, process))

CheckerInit(pc) ==
    /\ k_pc = pc
    /\ process_output \in (IF pc = "off" THEN {<<>>} ELSE Bytes)
    /\ judge_output \in (IF pc = "off" THEN {<<>>} ELSE Bytes)
    /\ k_ext \in (IF pc = "off" THEN {FALSE} ELSE BOOLEAN)
    /\ k_checker = ""
    /\ k_pe = FALSE
    /\ k_ret = NoCheck

\* A call of identical.check on the two outputs
IdenticalCheck ==
    /\ k_pc = "ready"
    /\ \E pe_allowed \in BOOLEAN :
        /\ k_pe' = pe_allowed
        /\ k_ret' = identical_check(process_output, judge_output, pe_allowed, k_ext)
    /\ k_checker' = "identical"
    /\ k_pc' = "done"
    /\ UNCHANGED <<process_output, judge_output, k_ext>>
    /\ UNCHANGED <<pvars, cvars, gvars>>

\* A call of standard.check on the two outputs
StandardCheck ==
    /\ k_pc = "ready"
    /\ k_ret' = standard_check(process_output, judge_output)
    /\ k_checker' = "standard"
    /\ k_pc' = "done"
    /\ UNCHANGED <<process_output, judge_output, k_ext, k_pe>>
    /\ UNCHANGED <<pvars, cvars, gvars>>

\* ------------------------------------------------------------ specification
\* One begin_grading call and a thread that calls abort_grading.
Init == InitWith(Problems, {1}) /\ CacheInit /\ GraderInit("off") /\ CheckerInit("off")

Judging ==
    \/ \E c \in Callers : Acquire(c)
    \/ \E c \in Callers : Spawn(c)
    \/ \E c \in Callers : SpawnFail(c)
    \/ \E c \in Callers : SpawnThreadFail(c)
    \/ \E c \in Callers : Join(c)
    \/ \E c \in Callers : Cleanup(c)
    \/ \E c \in Callers : SupRecv(c)
    \/ \E c \in Callers : SupTimeout(c)
    \/ \E c \in Callers : SupEOF(c)
    \/ \E c \in Callers : WorkerHello(c)
    \/ \E c \in Callers : WorkerBuild(c)
    \/ \E c \in Callers : WorkerGradingBegin(c)
    \/ \E c \in Callers : WorkerLoop(c)
    \/ \E c \in Callers : WorkerCase(c)
    \/ \E c \in Callers : WorkerGradeEnd(c)
    \/ \E c \in Callers : WorkerResult(c)
    \/ \E c \in Callers : WorkerBatchEnd(c)
    \/ \E c \in Callers : WorkerException(c)
    \/ \E c \in Callers : WorkerBye(c)
    \/ \E c \in Callers : WorkerExit(c)
    \/ \E c \in Callers : WorkerCrash(c)
    \/ \E c \in Callers : Listener(c)

Aborting ==
    \/ AbortRequest
    \/ AbortWaitDone
    \/ AbortWaitKill

Next == Judging \/ Aborting

Spec == Init /\ [][Next]_vars

\* Every caller calls begin_grading on the same Judge, concurrently; no
\* abort_grading call.
ConcProblems == {p \in Problems : TotalCases(p) <= 1}
InitConc == InitWith(ConcProblems, Callers) /\ CacheInit /\ GraderInit("off") /\ CheckerInit("off")

SpecConc == InitConc /\ [][Judging]_vars

\* Spec with the scheduling the code can count on: a worker process that
\* is not blocked in a send takes its next step (the compiler and every child
\* run under a deadline, the join of judge.py 169 under IPC_TIMEOUT), its
\* listener handles what arrives, a started grading thread receives what is
\* in the pipe, and abort_grading() leaves its wait within IPC_TIMEOUT.
Fairness ==
    /\ WF_vars(AbortWaitDone) /\ WF_vars(AbortWaitKill)
    /\ \A c \in Callers :
        /\ WF_vars(WorkerHello(c)) /\ WF_vars(WorkerBuild(c))
        /\ WF_vars(WorkerGradingBegin(c)) /\ WF_vars(WorkerLoop(c))
        /\ WF_vars(WorkerCase(c)) /\ WF_vars(WorkerGradeEnd(c))
        /\ WF_vars(WorkerResult(c)) /\ WF_vars(WorkerBatchEnd(c))
        /\ WF_vars(WorkerBye(c)) /\ WF_vars(WorkerExit(c))
        /\ WF_vars(Listener(c)) /\ WF_vars(SupRecv(c))

SpecLive == Init /\ [][Next]_vars /\ Fairness

\* SpecLive with the scheduling of the supervisor's own threads added: the
\* thread inside begin_grading takes its next step when it can (judge.py
\* 57-71), and the grading thread's poll() returns when recv_timeout has
\* passed or the stream has ended (judge.py 122-126).
CallFairness ==
    \A c \in Callers :
        /\ WF_vars(Spawn(c) \/ SpawnFail(c) \/ SpawnThreadFail(c))
        /\ WF_vars(Join(c)) /\ WF_vars(Cleanup(c))
        /\ WF_vars(SupTimeout(c)) /\ WF_vars(SupEOF(c))

SpecCall == Init /\ [][Next]_vars /\ Fairness /\ CallFairness

\* The cache alone: cached constructions, the binaries of submissions, and
\* holders letting go of their instances.
InitCache == InitWith({<<>>}, {}) /\ CacheInit /\ GraderInit("off") /\ CheckerInit("off")

NextCache ==
    \/ \E k \in DistinctKeys : CachedConstruct(k)
    \/ \E k \in DistinctKeys : generate_binary(k)
    \/ \E i \in Executors : Release(i)
    \/ \E d \in Executors : ExternalRemove(d)

SpecCache == InitCache /\ [][NextCache]_vars

\* One grader alone, grading up to MaxGraded cases.
InitGrade == InitWith({<<>>}, {}) /\ CacheInit /\ GraderInit("loop") /\ CheckerInit("off")

NextGrade ==
    \/ GradeCaseStart
    \/ GradeEnd
    \/ LaunchStart
    \/ Launch
    \/ GradeAbort
    \/ GradeAborted
    \/ GradeUnhandled
    \/ GradeBye
    \/ Interact
    \/ populate_result
    \/ CheckResult
    \/ GradeFinish
    \/ GradeShortCircuit
    \/ GradeYield

SpecGrade == InitGrade /\ [][NextGrade]_vars

\* One call of a checker on any two outputs.
InitCheck == InitWith({<<>>}, {}) /\ CacheInit /\ GraderInit("off") /\ CheckerInit("ready")

NextCheck ==
    \/ IdenticalCheck
    \/ StandardCheck

SpecCheck == InitCheck /\ [][NextCheck]_vars

\* ================================================================= claims
\* The worker of caller c has sent its BYE and its sequence is on record.
Finished(c) == wpc[c] = "join" /\ sent[c] # <<>>

\* judge.py 47-50; a submission is named by its caller
current_submission ==
    IF current_judge_worker # None THEN current_judge_worker ELSE None

\* The automaton of
\* HELLO (COMPILE_ERROR | COMPILE_MESSAGE? GRADING_BEGIN
\*        (BATCH_BEGIN RESULT+ BATCH_END | RESULT)* (GRADING_END | GRADING_ABORTED)
\*        | UNHANDLED_EXCEPTION) BYE
RxStep(q, tag) ==
    CASE q = "start" /\ tag = "HELLO" -> "hello"
      [] q = "hello" /\ tag \in {"COMPILE_ERROR", "UNHANDLED_EXCEPTION"} -> "end"
      [] q = "hello" /\ tag = "COMPILE_MESSAGE" -> "message"
      [] q \in {"hello", "message"} /\ tag = "GRADING_BEGIN" -> "cases"
      [] q = "cases" /\ tag = "RESULT" -> "cases"
      [] q = "cases" /\ tag = "BATCH_BEGIN" -> "batch0"
      [] q \in {"batch0", "batch"} /\ tag = "RESULT" -> "batch"
      [] q = "batch" /\ tag = "BATCH_END" -> "cases"
      [] q = "cases" /\ tag \in {"GRADING_END", "GRADING_ABORTED"} -> "end"
      [] q = "end" /\ tag = "BYE" -> "accept"
      [] OTHER -> "reject"

RECURSIVE RxRun(_, _)
RxRun(q, s) == IF s = <<>> THEN q ELSE RxRun(RxStep(q, Tag(Head(s))), Tail(s))

MatchesEventRegex(s) == RxRun("start", s) = "accept"

\* C1: the complete sequence of messages of every worker run matches
\* HELLO (COMPILE_ERROR | COMPILE_MESSAGE? GRADING_BEGIN (BATCH_BEGIN RESULT+
\* BATCH_END | RESULT)* (GRADING_END | GRADING_ABORTED) | UNHANDLED_EXCEPTION) BYE.
C1_EventRegex == \A c \in Callers : Finished(c) => MatchesEventRegex(sent[c])

\* The batch opened at position i of s is closed by BATCH_END of the same
\* number before any other BATCH_BEGIN or stream terminator.
BatchClosed(s, i) ==
    \E j \in (i + 1)..Len(s) :
        /\ s[j] = Msg("BATCH_END", s[i][2], 0, {})
        /\ \A k \in (i + 1)..(j - 1) :
              Tag(s[k]) \notin TerminalTags \cup {"BATCH_BEGIN", "BYE"}

\* C2: in every worker run each BATCH_BEGIN(n) is followed by BATCH_END(n),
\* with no other BATCH_BEGIN and no terminator between them, also when the
\* grading is aborted or an error is raised during a batched case.
C2_BatchBeginClosed ==
    \A c \in Callers :
        Finished(c) =>
            \A i \in 1..Len(sent[c]) :
                Tag(sent[c][i]) = "BATCH_BEGIN" => BatchClosed(sent[c], i)

\* C3: the results list of begin_grading holds the RESULT events in case
\* order: entry k has case number k and the batch number of the k-th
\* flattened case (None outside a batch).
C3_ResultsInCaseOrder ==
    \A c \in Callers :
        \A k \in 1..Len(results[c]) :
            /\ k <= Len(flat)
            /\ results[c][k][2] = k
            /\ results[c][k][1] = flat[k]

\* A complete list of at least two results, one of them of a batched case,
\* is about to be returned.
C3_Witness ==
    \E c \in Callers :
        /\ cpc[c] = "cleanup"
        /\ Len(results[c]) = Len(flat)
        /\ Len(results[c]) >= 2
        /\ \E k \in 1..Len(results[c]) : results[c][k][1] # None

\* The RESULT messages among s, in order.
ResultsOf(s) == SelectSeq(s, LAMBDA m : Tag(m) = "RESULT")

\* C4: with short_circuit, after the first RESULT without AC every later
\* case gets a RESULT carrying SC and no child is launched for it; without
\* short_circuit no RESULT carries SC, every case with a RESULT was run and
\* a grading that reaches GRADING_END has run every case.
C4_ShortCircuit ==
    \A c \in Callers :
        LET rs == ResultsOf(sent[c]) IN
        /\ \A k \in 1..Len(rs) : \A i \in 1..Len(rs) :
              (short_circuit[c] /\ "AC" \notin rs[k][4] /\ k < i)
                  => ("SC" \in rs[i][4] /\ rs[i][3] \notin launched[c])
        /\ (Finished(c) /\ short_circuit[c]
                /\ \E k \in 1..Len(rs) : "AC" \notin rs[k][4])
              => Len(rs) = Len(flat)
        /\ ~short_circuit[c] =>
              \A i \in 1..Len(rs) : "SC" \notin rs[i][4] /\ rs[i][3] \in launched[c]
        /\ (Finished(c) /\ ~short_circuit[c] /\ terminal[c] = "GRADING_END")
              => launched[c] = 1..Len(flat)

\* A run with short_circuit ended after a failing case and a skipped one.
C4_Witness ==
    \E c \in Callers :
        /\ Finished(c) /\ short_circuit[c]
        /\ \E i \in 1..Len(sent[c]) :
              Tag(sent[c][i]) = "RESULT" /\ "SC" \in sent[c][i][4]

\* The last abort_grading() call was made while a case of its worker was
\* running and has returned; the worker's record is still kept.
AbortInCaseReturned ==
    /\ apc = "idle" /\ atarget # None /\ abort_in_case
    /\ cpc[atarget] # "returned"

AbortSeenDuringGrading(c) ==
    /\ abort_seen[c] >= 0
    /\ Len(flat) >= 1
    /\ \E j \in 1..abort_seen[c] : Tag(sent[c][j]) = "GRADING_BEGIN"
    /\ \A j \in 1..abort_seen[c] : Tag(sent[c][j]) \notin TerminalTags

\* C6: once the listener has processed REQUEST_ABORT during grading, the
\* worker emits at most one more RESULT, then GRADING_ABORTED (not
\* GRADING_END), then BYE (no error being raised meanwhile).
C6_AbortEndsGrading ==
    \A c \in Callers :
        (Finished(c) /\ AbortSeenDuringGrading(c)
            /\ terminal[c] # "UNHANDLED_EXCEPTION") =>
            LET rest == SubSeq(sent[c], abort_seen[c] + 1, Len(sent[c])) IN
            /\ Len(ResultsOf(rest)) <= 1
            /\ Len(rest) >= 2
            /\ Tag(rest[Len(rest) - 1]) = "GRADING_ABORTED"
            /\ Tag(rest[Len(rest)]) = "BYE"

\* Callers between acquiring and releasing the grading mutex.
InGrading == {c \in Callers : cpc[c] \in {"locked", "wait", "cleanup", "raised"}}

\* C7: at most one begin_grading call is between acquiring and releasing
\* the grading mutex, and a worker is spawned only when no other worker is
\* the current one.
C7_OneGradingAtATime ==
    /\ Cardinality(InGrading) <= 1
    /\ \A c \in Callers : cpc[c] = "locked" => current_judge_worker = None
    /\ \A c \in Callers : cpc[c] \in {"wait", "cleanup"} => current_judge_worker = c

\* One call has returned and a second one is grading while the first
\* worker has not yet ended.
C7_Witness ==
    \E c, d \in Callers :
        /\ c # d
        /\ cpc[c] = "returned" /\ Alive(c)
        /\ cpc[d] = "wait" /\ Alive(d)

\* C8: current_submission is null whenever no begin_grading call is in
\* progress, and is the submission being graded while one is.
C8_CurrentSubmission ==
    /\ (\A c \in Callers : cpc[c] \notin {"locked", "wait", "cleanup"})
          => current_submission = None
    /\ \A c \in Callers : cpc[c] \in {"wait", "cleanup"} => current_submission = c

\* Every call has ended, one of them after a timeout of its receive loop.
C8_Witness ==
    /\ \A c \in Callers : cpc[c] = "returned"
    /\ \E c \in Callers : timed_out[c]
    /\ current_submission = None

\* A step in which abort_grading() is entered (judge.py 97-100).
AbortCallStep ==
    /\ apc = "idle"
    /\ <<apc, atarget, abort_in_case, abort_repeat>>'
          # <<apc, atarget, abort_in_case, abort_repeat>>

\* C9: abort_grading() with no grading in progress, and abort_grading()
\* called again right after a call on the same worker, sends nothing, kills
\* nothing and leaves the Judge, the worker and the pipe as they are.
C9_AbortIdempotent ==
    [][ /\ (AbortCallStep
              /\ (current_judge_worker = None \/ atarget = current_judge_worker))
            => /\ UNCHANGED <<jvars, svars, wvars>>
               /\ current_judge_worker = None => apc' = "idle"
        /\ (apc = "wait" /\ apc' = "idle" /\ abort_repeat)
            => UNCHANGED <<jvars, svars, wvars>>
      ]_vars

\* A second abort_grading() in a row on the same worker has returned.
C9_Witness == abort_repeat /\ apc = "idle" /\ current_judge_worker = atarget

\* C10: after a receive timeout the caller of begin_grading gets a
\* TimeoutError instead of a result list.
C10_TimeoutReachesCaller ==
    \A c \in Callers :
        (timed_out[c] /\ cpc[c] = "returned") => outcome[c] = "TimeoutError"

\* C11: of two successive compilations of the same key made the same way
\* (both cached constructions, or both the binaries of submissions graded
\* one after the other), the second, following a successful first, does not
\* run the compiler again: it reuses the first's executable.
C11_SecondCompileReuses == ~recompiled

\* C12: an instance that adopted a cached working directory on a cache hit
\* and is still held by its user has that directory on disk.
C12_AdoptedDirKept ==
    \A i \in Executors :
        (objs[i].born /\ objs[i].held /\ objs[i].dir # i) => objs[i].dir \in disk

\* The case at hand went through grade() (it was not short-circuited) and
\* its result is about to be sent in a RESULT event.
GradedResultEmitted == g_pc = "yield" /\ g_process.state # "none"

\* C13: a result sent in a RESULT event has exactly one flag among AC, WA,
\* SC, TLE, MLE, RTE, OLE and IR.
C13_ExactlyOneVerdict ==
    g_pc = "yield" => Cardinality(g_result.result_flag) = 1

\* C14: the points of an emitted result lie between 0 and the points of its
\* case, and are positive only when AC is set, whatever the checker returned.
C14_PointsWithinCase ==
    g_pc = "yield" =>
        /\ 0 <= g_result.points /\ g_result.points <= g_case.points
        /\ (g_result.points > 0 => "AC" \in g_result.result_flag)

\* C15: the result of a case whose child wrote more than the output limit
\* carries OLE.
C15_OutputLimitFlagged ==
    (GradedResultEmitted /\ g_case.floods) => "OLE" \in g_result.result_flag

\* The child of the case at hand was still running at the wall deadline.
RanPastDeadline == g_case.runs > g_case.wall

Elapsed == IF RanPastDeadline THEN g_case.wall ELSE g_case.runs

\* C17: the execution_time of an emitted result is the time the child ran.
C17_ExecutionTimeIsElapsed ==
    GradedResultEmitted => g_result.execution_time = Elapsed

HasSent(c, tag) == \E n \in 1..Len(sent[c]) : Tag(sent[c][n]) = tag

IsPrefix(s, t) == Len(s) <= Len(t) /\ \A n \in 1..Len(s) : s[n] = t[n]

CompileErrorRun == <<Plain("HELLO"), Plain("COMPILE_ERROR"), Plain("BYE")>>

\* C18: a worker that sends COMPILE_ERROR sends HELLO, COMPILE_ERROR, BYE
\* and nothing else, launches no child, and the results list of its
\* begin_grading call is empty when the call returns.
C18_CompileErrorEndsRun ==
    \A c \in Callers :
        /\ HasSent(c, "COMPILE_ERROR") =>
              /\ IsPrefix(sent[c], CompileErrorRun)
              /\ launched[c] = {}
              /\ results[c] = <<>>
        /\ (HasSent(c, "COMPILE_ERROR") /\ Finished(c)) => sent[c] = CompileErrorRun
        /\ (terminal[c] = "COMPILE_ERROR" /\ cpc[c] = "cleanup") => results[c] = <<>>

C18_Witness ==
    \E c \in Callers :
        /\ cpc[c] = "cleanup" /\ gpc[c] = "done"
        /\ terminal[c] = "COMPILE_ERROR"
        /\ Len(flat) >= 1

\* What the supervisor has received from the live worker c so far.
Received(c) == SubSeq(sent[c], 1, Len(sent[c]) - Len(w2s[c]))

\* C19: once the sequence received from a worker leaves the worker state
\* machine, the supervisor kills the worker in handling that message: it is
\* never in (or past) its receive loop with a deviating sequence received
\* and the worker alive.
C19_DeviationKillsWorker ==
    \A c \in Callers :
        (Alive(c) /\ gpc[c] \in {"recv", "done"}) =>
            RxRun("start", Received(c)) # "reject"

\* The begin_grading call of caller c has ended, by returning or by raising.
CallEnded(c) == cpc[c] \in {"returned", "raised"}

\* C20: once a begin_grading call has ended, its worker process is, or
\* eventually becomes, not alive (it has exited, was killed, or never
\* started).
C20_WorkerDoesNotOutlive == \A c \in Callers : CallEnded(c) ~> ~Alive(c)

\* C21: the identical checker returns true iff the two outputs are equal
\* byte for byte; on unequal outputs with pe_allowed that are equal after
\* trim plus collapse-whitespace normalization it returns a failed
\* CheckerResult with 0 points and the Presentation Error feedback, and a
\* failed result without that feedback in every other case.
C21_IdenticalChecker ==
    (k_pc = "done" /\ k_checker = "identical") =>
        k_ret = IF process_output = judge_output THEN Bool(TRUE)
                ELSE IF k_pe /\ Normalized(process_output) = Normalized(judge_output)
                THEN CheckerResult(FALSE, 0, PresentationError)
                ELSE CheckerResult(FALSE, 0, "")

\* The normalization the standard checker is described with: trailing
\* whitespace stripped and line endings normalized (the alphabet has the
\* newline as its only line ending, which stays as it is).
normalize(b) == rstrip(b)

\* C22: for the standard checker, normalize(normalize(x)) = normalize(x),
\* check(x, y) = check(normalize(x), normalize(y)), and check(x, y) is true
\* iff x and y are equal after stripping trailing whitespace and normalizing
\* line endings, so that outputs differing in leading whitespace are not
\* accepted.
C22_StandardChecker ==
    (k_pc = "done" /\ k_checker = "standard") =>
        /\ normalize(normalize(process_output)) = normalize(process_output)
        /\ normalize(normalize(judge_output)) = normalize(judge_output)
        /\ k_ret = standard_check(normalize(process_output), normalize(judge_output))
        /\ k_ret.passed <=> (normalize(process_output) = normalize(judge_output))

\* The src of the symlink at hand lies, once normalized, neither at nor
\* beneath the working directory.
OutsideDir == g_symlink # <<>> /\ ~IsPrefix(DirPath, abspath(g_symlink))

\* C23: a launch asked for a symlink whose src lies, after normalization,
\* outside the working directory (a sibling directory whose name starts with
\* the working directory's name included) fails with InternalError, makes no
\* symlink and starts no child; and the worker then sends
\* UNHANDLED_EXCEPTION followed by BYE and nothing else.
C23_SymlinkEscapeRejected ==
    /\ OutsideDir =>
          /\ g_raised = "InternalError"
          /\ g_process.state = "none"
          /\ ~g_linked
    /\ g_raised = "InternalError" =>
          /\ g_pc \in {"raised", "unhandled", "bye"}
          /\ IsPrefix(g_sent, <<"UNHANDLED_EXCEPTION", "BYE">>)
          /\ g_pc = "bye" => g_sent = <<"UNHANDLED_EXCEPTION", "BYE">>

\* The messages of a queue that are not BYE, and the number of those that are.
NonBye(q) == SelectSeq(q, LAMBDA m : Tag(m) # "BYE")
ByeCount(q) == Len(q) - Len(NonBye(q))

\* C24: communicate() never yields BYE; while the worker lives, what it has
\* yielded followed by what waits in the pipe is what the worker sent, BYE
\* aside, so every other message is yielded once and in the order sent; each
\* yield hands over the message at the head of the pipe; a BYE goes to the
\* worker only in the step that receives the worker's BYE, one BYE, and that
\* step ends the loop; and once the loop has ended nothing more is yielded.
C24_ReceiveLoop ==
    /\ [](\A c \in Callers :
            /\ \A n \in 1..Len(yielded[c]) : Tag(yielded[c][n]) # "BYE"
            /\ (Alive(c) /\ gpc[c] \in {"recv", "done"}) =>
                   yielded[c] \o NonBye(w2s[c]) = NonBye(sent[c]))
    /\ [][\A c \in Callers :
            /\ ByeCount(s2w'[c]) > ByeCount(s2w[c]) =>
                   /\ gpc[c] = "recv" /\ w2s[c] # <<>> /\ Tag(Head(w2s[c])) = "BYE"
                   /\ gpc'[c] = "done"
                   /\ ByeCount(s2w'[c]) = ByeCount(s2w[c]) + 1
            /\ (gpc[c] = "recv" /\ gpc'[c] = "done") =>
                   ByeCount(s2w'[c]) = ByeCount(s2w[c]) + 1
            /\ gpc[c] # "recv" => yielded'[c] \in {yielded[c], <<>>}
            /\ (yielded'[c] # yielded[c] /\ yielded'[c] # <<>>) =>
                   /\ w2s[c] # <<>>
                   /\ yielded'[c] = Append(yielded[c], Head(w2s[c]))
                   /\ w2s'[c] = Tail(w2s[c])]_vars

C24_Witness ==
    \E c \in Callers :
        /\ gpc[c] = "done" /\ Alive(c)
        /\ Len(yielded[c]) >= 3
        /\ ByeCount(s2w[c]) = 1

\* The events around the cases of problem p, as <<tag, batch>>, when every
\* batch is opened once before its first case and closed once after its
\* last.
RECURSIVE BoundaryEvents(_, _)
BoundaryEvents(p, batch_number) ==
    IF p = <<>> THEN <<>>
    ELSE IF Head(p) = 0
         THEN <<(<<"RESULT", None>>)>> \o BoundaryEvents(Tail(p), batch_number)
         ELSE <<(<<"BATCH_BEGIN", batch_number + 1>>)>>
              \o [k \in 1..Head(p) |-> <<"RESULT", batch_number + 1>>]
              \o <<(<<"BATCH_END", batch_number + 1>>)>>
              \o BoundaryEvents(Tail(p), batch_number + 1)

\* The BATCH_BEGIN, RESULT and BATCH_END events of s, as <<tag, batch>>.
CaseEvents(s) ==
    LET es == SelectSeq(s, LAMBDA m : Tag(m) \in {"BATCH_BEGIN", "RESULT", "BATCH_END"})
    IN  [n \in 1..Len(es) |-> <<es[n][1], es[n][2]>>]

\* C25: a worker run that reached GRADING_END has sent, for every batch n
\* with k cases, one BATCH_BEGIN(n), then the k RESULTs of the batch with
\* nothing between them, then one BATCH_END(n); and no run sends
\* BATCH_BEGIN(n) twice.
C25_BatchBoundaries ==
    \A c \in Callers :
        /\ (Finished(c) /\ terminal[c] = "GRADING_END") =>
               CaseEvents(sent[c]) = BoundaryEvents(problem, 0)
        /\ \A i, j \in 1..Len(sent[c]) :
               (Tag(sent[c][i]) = "BATCH_BEGIN" /\ sent[c][j] = sent[c][i]) => i = j

\* C26: while the child of a case runs towards a wall deadline that is still
\* ahead, _current_proc refers to it; and an abort request that comes during
\* that time sets the abort flag and kills that child.
C26_AbortKillsRunningChild ==
    /\ (g_process.state = "running" /\ g_case.wall > 0) => g_current_proc = "child"
    /\ (g_abort_running /\ g_case.wall > 0) => (g_abort /\ g_killed_by = "abort")

\* The entries of a cache other than the entry of key k, in their order.
EntriesBut(cache, k) == SelectSeq(cache, LAMBDA e : e[1] # k)

C28_HitNeedsExecutable ==
    [][\A i \in Executors :
         (~objs[i].born /\ objs'[i].held /\ objs'[i].dest_dir = DestDir(TRUE)) =>
             LET k == objs'[i].key
                 cache == compiled_binary_cache
             IN  /\ k \in CachedKeys(cache) =>
                       LET executor == cache[EntryOf(cache, k)][2] IN
                       IF objs[executor].dir \in binaries
                       THEN /\ objs'[i].dir = objs[executor].dir
                            /\ disk' = disk /\ binaries' = binaries
                            /\ \E n \in 1..Len(compiled_binary_cache') :
                                  compiled_binary_cache'[n] = <<k, executor>>
                       ELSE /\ objs'[i].dir = i
                            /\ i \notin disk /\ i \in disk' /\ i \in binaries'
                            /\ \E n \in 1..Len(compiled_binary_cache') :
                                  compiled_binary_cache'[n] = <<k, i>>
                 /\ objs'[i].dir # i => objs'[i].dir \in binaries]_vars

\* The entry of a key was replaced because its executable had been removed:
\* the instance of the old entry is still around, its directory without
\* executable, and the cache holds a newer instance for the same key.
C28_Witness ==
    \E e, i \in Executors :
        /\ e < i
        /\ objs[e].held /\ objs[e].is_cached /\ objs[e].dir = e
        /\ e \in disk \ binaries
        /\ ~InCache(compiled_binary_cache, e)
        /\ objs[i].key = objs[e].key /\ objs[i].dir = i /\ i \in binaries
        /\ InCache(compiled_binary_cache, i)

\* C29: every working directory on disk has an owner that will remove it:
\* an instance of the cache, or an instance in use that is not marked
\* cached; and an instance is marked cached only while a cache entry holds
\* its working directory.
C29_DirectoryOwned ==
    /\ \A d \in disk :
          \E i \in Executors :
              /\ objs[i].dir = d
              /\ \/ InCache(compiled_binary_cache, i)
                 \/ objs[i].held /\ ~objs[i].is_cached
    /\ \A i \in Executors :
          (objs[i].held /\ objs[i].is_cached) =>
              \E j \in Executors :
                  InCache(compiled_binary_cache, j) /\ objs[j].dir = objs[i].dir

\* C30: in grade() the checker of the case is invoked exactly when the
\* result has no flag after populate_result or the checker runs on error;
\* a case whose checker was not invoked is not passed and gets 0 points; a
\* checker that raises UnicodeDecodeError gives the failed check with 0
\* points and the feedback 'invalid unicode', and the case gets WA and 0
\* points.
C30_CheckerInvocation ==
    /\ g_pc = "finish" =>
          /\ g_ran <=> (g_result.result_flag = {} \/ g_case.run_on_error)
          /\ ~g_ran => (~Lifted(g_check, g_case).passed /\ Lifted(g_check, g_case).points = 0)
    /\ g_unicode =>
          /\ g_ran
          /\ g_check = [kind |-> "result", passed |-> FALSE, points |-> 0,
                        feedback |-> "invalid unicode"]
    /\ (g_pc = "graded" /\ (~g_ran \/ g_unicode)) =>
          /\ "WA" \in g_result.result_flag /\ "AC" \notin g_result.result_flag
          /\ g_result.points = 0

\* A case worth points whose child failed and whose checker, run on error,
\* raised UnicodeDecodeError.
C30_Witness ==
    /\ g_pc = "graded" /\ g_unicode /\ g_case.run_on_error
    /\ g_case.points > 0
    /\ "RTE" \in g_result.result_flag

\* C31: every begin_grading call that has taken the grading lock eventually
\* ends with the lock released, whatever its worker does: completing,
\* hanging or dying after HELLO, hanging or dying before HELLO, or failing
\* to be spawned.
C31_CallEndsLockReleased ==
    \A c \in Callers : (grading_lock = c) ~> (CallEnded(c) /\ grading_lock = None)

\* The positions of the terminal events in a sequence of messages.
TerminalEvents(s) == {i \in 1..Len(s) : Tag(s[i]) \in TerminalTags}

\* C32: in every worker run BYE is sent at most once and nothing is sent
\* after it; it comes right after a terminal event (COMPILE_ERROR,
\* GRADING_END, GRADING_ABORTED or UNHANDLED_EXCEPTION); a run holds at most
\* one terminal event, after which nothing but BYE is sent; and a run that
\* reaches its end has sent exactly one terminal event and then exactly one
\* BYE, its last message.
C32_ByeAfterOneTerminal ==
    \A c \in Callers :
        LET s == sent[c] IN
        /\ ByeCount(s) <= 1
        /\ Cardinality(TerminalEvents(s)) <= 1
        /\ \A i \in 1..Len(s) :
              /\ Tag(s[i]) = "BYE" =>
                    (i = Len(s) /\ i > 1 /\ Tag(s[i - 1]) \in TerminalTags)
              /\ (Tag(s[i]) \in TerminalTags /\ i < Len(s)) =>
                    (i + 1 = Len(s) /\ Tag(s[i + 1]) = "BYE")
        /\ Finished(c) =>
              /\ ByeCount(s) = 1 /\ Tag(s[Len(s)]) = "BYE"
              /\ Cardinality(TerminalEvents(s)) = 1
        /\ (Alive(c) /\ ByeCount(s) = 1) => wpc[c] = "join"

\* A run that sent a RESULT, then GRADING_ABORTED, then BYE.
C32_Witness ==
    \E c \in Callers :
        /\ Finished(c)
        /\ HasSent(c, "RESULT")
        /\ terminal[c] = "GRADING_ABORTED"

====
